---- MODULE Spec2Model ----
(***************************************************************************)
(* Task-management server: the Access Gateway (routes), the User           *)
(* Directory, the Task Store and the Sharing Ledger (storage.ts) over the  *)
(* relational schema of shared/schema.ts.                                  *)
(*                                                                         *)
(* One step of a request is one store statement together with the local   *)
(* computation of the handler that follows it up to the next statement    *)
(* (or up to the response).  Requests of different processes interleave    *)
(* at statement boundaries; no transaction spans two statements.           *)
(***************************************************************************)
EXTENDS Integers, Sequences, FiniteSets, TLC

\* ------------------------------------------------------------------ bounds
NumIdents == 2      \* identities known to the Identity Verifier
MaxTasks  == 2      \* values the tasks.id sequence may hand out
MaxShares == 2      \* values the task_shares.id sequence may hand out
MaxUsers  == 3      \* values the users.id sequence may hand out
MaxClock  == 1      \* last instant of the (monotonic) clock
MaxGrowth == 5      \* joint cap on the three id sequences and the clock (Spec, StatusSpec)
ShareGrowth == 6    \* the same cap, in ShareSpec, RemoveSpec, SharedSearchSpec
ConcGrowth == 6     \* the same cap, in ConcSpec
SearchGrowth == 5   \* the same cap, in SearchSpec

Procs   == {"p1", "p2"}
Idents  == 1 .. NumIdents
TaskIds == 1 .. MaxTasks
UserIds == 1 .. MaxUsers

\* ---------------------------------------------------------------- schema
TaskStatus      == {"todo", "inprogress", "completed"}
SharePermission == {"view", "edit"}

\* A nullable text column holds NoText for NULL, a tuple of characters else.
NoText == << >>

\* keys kept by insertTaskSchema (id, createdAt, updatedAt omitted; priority
\* and dueDate are not modelled)
insertTaskKeys == {"title", "description", "status", "ownerId"}
updateTaskKeys == insertTaskKeys \ {"ownerId"}

Restrict(f, K) == [k \in (DOMAIN f) \cap K |-> f[k]]

\* zod object schemas strip unknown keys and reject a wrong-typed value
insertTaskSchemaOk(raw) ==
    /\ "title" \in DOMAIN raw
    /\ "ownerId" \in DOMAIN raw
    /\ "status" \in DOMAIN raw => raw.status \in TaskStatus

insertTaskSchemaParse(raw) == Restrict(raw, insertTaskKeys)

updateTaskSchemaOk(raw) ==
    "status" \in DOMAIN raw => raw.status \in TaskStatus

updateTaskSchemaParse_keepsOwner(raw) == Restrict(raw, insertTaskKeys)

updateTaskSchemaParse(raw) == Restrict(raw, updateTaskKeys)

shareTaskRequestSchemaOk(raw) ==
    /\ {"taskId", "email", "permission"} \subseteq DOMAIN raw
    /\ raw.permission \in SharePermission

\* -------------------------------------------------------- identity verifier
\* verifyFirebaseToken: token i of identity i decodes to its subject
\* identifier and e-mail address; token 0 is rejected.
FirebaseUid(i)    == [kind |-> "firebase", at |-> 0, who |-> i]
EmailOf(i)        == i
PlaceholderUid(now, email) == [kind |-> "placeholder", at |-> now, who |-> email]
Emails            == {EmailOf(i) : i \in Idents}

verifyFirebaseTokenOk_any(token) == TRUE

verifyFirebaseTokenOk(token) == token \in Idents

VARIABLES
    users,        \* table users:       rows [id, firebaseUid, email]
    tasks,        \* table tasks:       rows [id, title, description, status,
                  \*                          createdAt, updatedAt, ownerId]
    taskShares,   \* table task_shares: rows [id, taskId, sharedWithId, permission]
    serial,       \* last value handed out by each table's id sequence
    clock,        \* current instant
    req           \* per process: the request in flight and its local state

vars == <<users, tasks, taskShares, serial, clock, req>>
store == <<users, tasks, taskShares, serial, clock>>

\* ------------------------------------------------------- store statements
\* Each operator below is one SQL statement of storage.ts, as a function of
\* the tables.

getUserByFirebaseUidRows(firebaseUid) == {u \in users : u.firebaseUid = firebaseUid}

getUserByEmailRows_none(email) == {}

getUserByEmailRows(email) == {u \in users : u.email = email}

\* users.firebase_uid is UNIQUE; users.email is not
usersUniqueOk_unchecked(row) == TRUE

usersUniqueOk(row) == \A u \in users : u.firebaseUid # row.firebaseUid

taskRowsById(id) == {t \in tasks : t.id = id}

taskSharesByTask(taskId) == {s \in taskShares : s.taskId = taskId}

\* WHERE clause of updateTask
updateTaskWhere_idOnly(t, id, userId) == t.id = id

updateTaskWhere_editShare(t, id, userId) ==
    /\ t.id = id
    /\ \/ t.ownerId = userId
       \/ \E s \in taskShares :
             s.taskId = id /\ s.sharedWithId = userId /\ s.permission = "edit"

updateTaskWhere(t, id, userId) == t.id = id /\ t.ownerId = userId

\* SET clause of updateTask: { ...updates, updatedAt: new Date() }
updateTaskSet_completedFinal(t, updates, now) ==
    [k \in DOMAIN t |-> IF k = "updatedAt" THEN now
                        ELSE IF k \in DOMAIN updates
                                /\ ~(k = "status" /\ t.status = "completed")
                             THEN updates[k]
                        ELSE t[k]]

updateTaskSet(t, updates, now) ==
    [k \in DOMAIN t |-> IF k = "updatedAt" THEN now
                        ELSE IF k \in DOMAIN updates THEN updates[k]
                        ELSE t[k]]

\* WHERE clause of deleteTask
deleteTaskWhere_idOnly(t, id, userId) == t.id = id

deleteTaskWhere_editShare(t, id, userId) ==
    /\ t.id = id
    /\ \/ t.ownerId = userId
       \/ \E s \in taskShares :
             s.taskId = id /\ s.sharedWithId = userId /\ s.permission = "edit"

deleteTaskWhere(t, id, userId) == t.id = id /\ t.ownerId = userId

\* task_shares.task_id REFERENCES tasks(id) ON DELETE CASCADE
onDeleteCascade_none(deleted) == taskShares

onDeleteCascade(deleted) ==
    {s \in taskShares : \A t \in deleted : s.taskId # t.id}

\* foreign keys checked when a task_shares row is inserted
taskSharesFkOk_unchecked(row) == TRUE

taskSharesFkOk_uniquePair(row) ==
    /\ \E t \in tasks : t.id = row.taskId
    /\ \E u \in users : u.id = row.sharedWithId
    /\ \A s \in taskShares :
          ~(s.taskId = row.taskId /\ s.sharedWithId = row.sharedWithId)

taskSharesFkOk(row) ==
    /\ \E t \in tasks : t.id = row.taskId
    /\ \E u \in users : u.id = row.sharedWithId

\* foreign key checked when a tasks row is inserted
tasksFkOk(row) == \E u \in users : u.id = row.ownerId

\* WHERE clause of removeTaskShare
removeTaskShareWhere(s, taskId, sharedWithId) ==
    s.taskId = taskId /\ s.sharedWithId = sharedWithId

\* ------------------------------------------------------------ result rows
\* TaskWithOwner: the task row, the joined owner row and the share list
TaskWithOwner(t, shareRows) ==
    [id |-> t.id, title |-> t.title, description |-> t.description,
     status |-> t.status, createdAt |-> t.createdAt, updatedAt |-> t.updatedAt,
     ownerId |-> t.ownerId,
     owner |-> CHOOSE u \in users : u.id = t.ownerId,
     shares |-> shareRows]

\* every enumeration of a finite set as a sequence
SeqsOf(S) ==
    {f \in [1 .. Cardinality(S) -> S] : \A i, j \in DOMAIN f : i # j => f[i] # f[j]}

\* ORDER BY created_at DESC; rows with equal timestamps come in any order
OrderByCreatedAtDesc(createdAt) ==
    \A i, j \in DOMAIN createdAt : i < j => createdAt[i] >= createdAt[j]

\* ---------------------------------------------------------------- requests
Kinds == {"getUser", "getTasks", "getTask", "createTask", "updateTask",
          "deleteTask", "shareTask", "getShares", "removeShare"}

NoBody == << >>

Idle == [pc |-> "idle", kind |-> "none", header |-> [scheme |-> "none", token |-> 0],
         ident |-> 0, taskId |-> 0, userId |-> 0,
         search |-> NoText, body |-> NoBody,
         user |-> 0, data |-> NoBody, task |-> << >>, sharedWith |-> 0,
         provisioned |-> 0,
         owned |-> << >>, ownedPc |-> "none", shared |-> << >>, sharedPc |-> "none",
         status |-> 0, message |-> "", result |-> << >>]

InFlight(r) == r.pc \notin {"idle", "done"}

\* res.status(status).json(...): the request is over, its locals are gone
Respond(r, status, message, result) ==
    [Idle EXCEPT !.pc = "done", !.kind = r.kind, !.header = r.header, !.ident = r.ident,
                 !.taskId = r.taskId, !.userId = r.userId, !.search = r.search,
                 !.body = r.body, !.user = r.user,
                 !.status = status, !.message = message, !.result = result]

\* the catch-all branch of each handler
FailureMessage(kind) ==
    CASE kind = "getUser"     -> "Failed to get user"
      [] kind = "getTasks"    -> "Failed to fetch tasks"
      [] kind = "getTask"     -> "Failed to fetch task"
      [] kind = "createTask"  -> "Failed to create task"
      [] kind = "updateTask"  -> "Failed to update task"
      [] kind = "deleteTask"  -> "Failed to delete task"
      [] kind = "shareTask"   -> "Failed to share task"
      [] kind = "getShares"   -> "Failed to fetch task shares"
      [] kind = "removeShare" -> "Failed to remove task share"

Respond500(r) == Respond(r, 500, FailureMessage(r.kind), << >>)

\* ------------------------------------------------------------------ search
Lower(c) == CASE c = "A" -> "a" [] c = "B" -> "b" [] OTHER -> c

LowerText(s) == [i \in DOMAIN s |-> Lower(s[i])]

\* text LIKE pattern: % matches any run of characters, _ any one character
RECURSIVE LikeMatch(_, _)
LikeMatch(text, pattern) ==
    IF pattern = << >> THEN text = << >>
    ELSE IF Head(pattern) = "%"
    THEN \/ LikeMatch(text, Tail(pattern))
         \/ text # << >> /\ LikeMatch(Tail(text), pattern)
    ELSE /\ text # << >>
         /\ Head(pattern) = "_" \/ Head(pattern) = Head(text)
         /\ LikeMatch(Tail(text), Tail(pattern))

\* ilike(column, `%${search}%`): the search term is spliced into the pattern
\* as it is; NULL ILIKE anything is not true
ilike(column, search) ==
    /\ column # NoText
    /\ LikeMatch(LowerText(column), LowerText(<<"%">> \o search \o <<"%">>))

\* WHERE clause of getTasksByUserId; `if (search)` is false for a missing
\* and for an empty search term
getTasksByUserIdWhere(t, userId, search) ==
    IF search # NoText
    THEN t.ownerId = userId /\ (ilike(t.title, search) \/ ilike(t.description, search))
    ELSE t.ownerId = userId

\* WHERE clause of getUserSharedTasks
getUserSharedTasksWhere_any(s, userId) == TRUE

getUserSharedTasksWhere(s, userId) == s.sharedWithId = userId

\* ------------------------------------------------- capacity of the sequences
\* A request is accepted only while the id sequences can serve every insert
\* that it and the requests in flight may still issue.
UsersNeeded(r) ==
    (IF r.user = 0 /\ (r.pc = "createUser"
                       \/ getUserByFirebaseUidRows(FirebaseUid(r.ident)) = {})
     THEN 1 ELSE 0)
    + (IF r.kind = "shareTask" /\ r.sharedWith = 0 /\ "email" \in DOMAIN r.body
          /\ (r.pc = "createPlaceholderUser" \/ getUserByEmailRows(r.body.email) = {})
       THEN 1 ELSE 0)

TasksNeeded(r) == IF r.kind = "createTask" THEN 1 ELSE 0

SharesNeeded(r) == IF r.kind = "shareTask" THEN 1 ELSE 0

RECURSIVE SumOver(_, _)
SumOver(S, f) ==
    IF S = {} THEN 0
    ELSE LET x == CHOOSE y \in S : TRUE IN f[x] + SumOver(S \ {x}, f)

\* what the requests in flight other than p may still consume
Reserved(p) ==
    LET others == {q \in Procs \ {p} : InFlight(req[q])}
    IN  [users  |-> SumOver(others, [q \in Procs |-> UsersNeeded(req[q])]),
         tasks  |-> SumOver(others, [q \in Procs |-> TasksNeeded(req[q])]),
         shares |-> SumOver(others, [q \in Procs |-> SharesNeeded(req[q])])]

Grown == serial.users + serial.tasks + serial.taskShares + clock

CapacityOk(p, r, growth) ==
    LET res == Reserved(p)
        nUsers == serial.users + UsersNeeded(r) + res.users
        nTasks == serial.tasks + TasksNeeded(r) + res.tasks
        nShares == serial.taskShares + SharesNeeded(r) + res.shares
    IN  /\ nUsers <= MaxUsers
        /\ nTasks <= MaxTasks
        /\ nShares <= MaxShares
        /\ nUsers + nTasks + nShares + clock <= growth

\* the clock may advance while the requests in flight keep their capacity
ClockMayAdvance(p, growth) ==
    LET res == Reserved(p)
        mine == IF p \in Procs /\ InFlight(req[p])
                THEN UsersNeeded(req[p]) + TasksNeeded(req[p]) + SharesNeeded(req[p])
                ELSE 0
    IN  /\ clock < MaxClock
        /\ Grown + res.users + res.tasks + res.shares + mine < growth

\* ------------------------------------------------------------------ actions
Init ==
    /\ users = {}
    /\ tasks = {}
    /\ taskShares = {}
    /\ serial = [users |-> 0, tasks |-> 0, taskShares |-> 0]
    /\ clock = 0
    /\ req = [p \in Procs |-> Idle]

\* time passes
Tick(growth) ==
    /\ ClockMayAdvance("none", growth)
    /\ clock' = clock + 1
    /\ UNCHANGED <<users, tasks, taskShares, serial, req>>

\* POST /api/tasks: { ...req.body, ownerId: user.id }
taskDataRaw_bodyFirst(body, userId) ==
    [k \in (DOMAIN body) \cup {"ownerId"} |->
        IF k \in DOMAIN body THEN body[k] ELSE userId]

taskDataRaw(body, userId) ==
    [k \in (DOMAIN body) \cup {"ownerId"} |->
        IF k = "ownerId" THEN userId ELSE body[k]]

\* The handler body that runs once getOrCreateUser has returned user u, up to
\* its first store statement.
AfterUser(r, u) ==
    LET r1 == [r EXCEPT !.user = u.id] IN
    CASE r.kind = "getUser" -> Respond(r1, 200, "", <<u>>)
      [] r.kind = "getTasks" ->
            [r1 EXCEPT !.pc = "getTasks", !.ownedPc = "query", !.sharedPc = "query"]
      [] r.kind \in {"getTask", "getShares", "removeShare"} ->
            [r1 EXCEPT !.pc = "getTaskById"]
      [] r.kind = "createTask" ->
            LET raw == taskDataRaw(r.body, u.id)
            IN  IF insertTaskSchemaOk(raw)
                THEN [r1 EXCEPT !.pc = "createTask", !.data = insertTaskSchemaParse(raw)]
                ELSE Respond(r1, 400, "Invalid task data", << >>)
      [] r.kind = "updateTask" ->
            IF updateTaskSchemaOk(r.body)
            THEN [r1 EXCEPT !.pc = "updateTask", !.data = updateTaskSchemaParse(r.body)]
            ELSE Respond(r1, 400, "Invalid update data", << >>)
      [] r.kind = "deleteTask" -> [r1 EXCEPT !.pc = "deleteTask"]
      [] r.kind = "shareTask" ->
            IF shareTaskRequestSchemaOk(r.body)
            THEN [r1 EXCEPT !.pc = "getTaskById", !.taskId = r.body.taskId,
                            !.data = r.body]
            ELSE Respond(r1, 400, "Invalid share data", << >>)

\* getOrCreateUser, first statement: storage.getUserByFirebaseUid.  The
\* result is the set of records the request may continue with.
getOrCreateUser(r) ==
    LET rows == getUserByFirebaseUidRows(FirebaseUid(r.ident))
    IN  IF rows = {}
        THEN {[r EXCEPT !.pc = "createUser"]}
        ELSE {AfterUser(r, u) : u \in rows}

\* A request arrives: middleware authenticateUser (which reads no table),
\* then the handler up to and including its first store statement, the
\* lookup of getOrCreateUser.
authenticateUser(p, R, growth) ==
    /\ ~InFlight(req[p])
    /\ \E q \in R :
         LET r == [Idle EXCEPT !.kind = q.kind, !.header = q.header, !.taskId = q.taskId,
                               !.userId = q.userId, !.search = q.search,
                               !.body = q.body]
         IN  IF q.header.scheme # "Bearer"
             THEN req' = [req EXCEPT ![p] = Respond(r, 401, "No token provided", << >>)]
             ELSE IF ~verifyFirebaseTokenOk(q.header.token)
             THEN req' = [req EXCEPT ![p] = Respond(r, 401, "Invalid token", << >>)]
             ELSE LET r1 == [r EXCEPT !.ident = q.header.token] IN
                  /\ CapacityOk(p, r1, growth)
                  /\ \E r2 \in getOrCreateUser(r1) : req' = [req EXCEPT ![p] = r2]
    /\ UNCHANGED store

\* getOrCreateUser, second statement: storage.createUser
createUser(p) ==
    LET r == req[p]
        row == [id |-> serial.users + 1, firebaseUid |-> FirebaseUid(r.ident),
                email |-> EmailOf(r.ident)]
    IN  /\ r.pc = "createUser"
        /\ serial' = [serial EXCEPT !.users = @ + 1]
        /\ IF usersUniqueOk(row)
           THEN /\ users' = users \cup {row}
                /\ req' = [req EXCEPT ![p] = AfterUser(r, row)]
           ELSE /\ users' = users
                /\ req' = [req EXCEPT ![p] = Respond500(r)]
        /\ UNCHANGED <<tasks, taskShares, clock>>

\* a task_shares row joined with its recipient (leftJoin users)
ShareWithUser(s) ==
    [id |-> s.id, taskId |-> s.taskId, sharedWithId |-> s.sharedWithId,
     permission |-> s.permission,
     sharedWith |-> CHOOSE u \in users : u.id = s.sharedWithId]

\* hasAccess of GET /api/tasks/:id
hasAccess_ownerOnly(task, userId) == task.ownerId = userId

hasAccess(task, userId) ==
    \/ task.ownerId = userId
    \/ \E share \in task.shares : share.sharedWithId = userId

\* the ownership test of the three share handlers (the task was found)
ownsTask_always(task, userId) == TRUE

ownsTask(task, userId) == task.ownerId = userId

\* storage.getTaskById, first statement: the task row joined with its owner
getTaskById(p) ==
    LET r == req[p]
        rows == taskRowsById(r.taskId)
    IN  /\ r.pc = "getTaskById"
        /\ IF rows = {}
           THEN req' = [req EXCEPT ![p] =
                   CASE r.kind = "getTask" -> Respond(r, 404, "Task not found", << >>)
                     [] r.kind = "shareTask" ->
                          Respond(r, 403, "You can only share tasks you own", << >>)
                     [] OTHER -> Respond(r, 403, "Access denied", << >>)]
           ELSE \E t \in rows :
                   req' = [req EXCEPT ![p].pc = "getTaskById_shares", ![p].task = <<t>>]
        /\ UNCHANGED store

\* storage.getTaskById, second statement: the share rows of the task; then
\* the handler's access check
getTaskById_shares(p) ==
    LET r == req[p]
        shares == {ShareWithUser(s) : s \in taskSharesByTask(r.taskId)}
        task == TaskWithOwner(r.task[1], shares)
        r1 == [r EXCEPT !.task = << >>]
    IN  /\ r.pc = "getTaskById_shares"
        /\ req' = [req EXCEPT ![p] =
             CASE r.kind = "getTask" ->
                    IF hasAccess(task, r.user)
                    THEN Respond(r, 200, "", <<task>>)
                    ELSE Respond(r, 403, "Access denied", << >>)
               [] r.kind = "shareTask" ->
                    IF ownsTask(task, r.user)
                    THEN [r1 EXCEPT !.pc = "getUserByEmail"]
                    ELSE Respond(r, 403, "You can only share tasks you own", << >>)
               [] r.kind = "getShares" ->
                    IF ownsTask(task, r.user)
                    THEN [r1 EXCEPT !.pc = "getTaskShares"]
                    ELSE Respond(r, 403, "Access denied", << >>)
               [] r.kind = "removeShare" ->
                    IF ownsTask(task, r.user)
                    THEN [r1 EXCEPT !.pc = "removeTaskShare"]
                    ELSE Respond(r, 403, "Access denied", << >>)]
        /\ UNCHANGED store

\* storage.createTask: updatedAt is the server's new Date(), createdAt the
\* column default now() taken when the statement runs, skew instants later
createTask(p, growth, skew) ==
    LET r == req[p]
        data == r.data
    IN  /\ r.pc = "createTask"
        /\ \E c \in {clock + d : d \in skew} :
             LET row == [id |-> serial.tasks + 1,
                         title |-> data.title,
                         description |-> IF "description" \in DOMAIN data
                                         THEN data.description ELSE NoText,
                         status |-> IF "status" \in DOMAIN data
                                    THEN data.status ELSE "todo",
                         createdAt |-> c,
                         updatedAt |-> clock,
                         ownerId |-> data.ownerId]
             IN  /\ c = clock \/ ClockMayAdvance(p, growth)
                 /\ clock' = c
                 /\ serial' = [serial EXCEPT !.tasks = @ + 1]
                 /\ IF tasksFkOk(row)
                    THEN /\ tasks' = tasks \cup {row}
                         /\ req' = [req EXCEPT ![p] = Respond(r, 201, "", <<row>>)]
                    ELSE /\ tasks' = tasks
                         /\ req' = [req EXCEPT ![p] = Respond500(r)]
        /\ UNCHANGED <<users, taskShares>>

\* storage.updateTask, and the error mapping of PUT /api/tasks/:id
updateTask(p) ==
    LET r == req[p]
        hit == {t \in tasks : updateTaskWhere(t, r.taskId, r.user)}
        returning == {updateTaskSet(t, r.data, clock) : t \in hit}
    IN  /\ r.pc = "updateTask"
        /\ tasks' = (tasks \ hit) \cup returning
        /\ IF returning = {}
           THEN req' = [req EXCEPT ![p] =
                          Respond(r, 404, "Task not found or access denied", << >>)]
           ELSE \E t \in returning :
                   req' = [req EXCEPT ![p] = Respond(r, 200, "", <<t>>)]
        /\ UNCHANGED <<users, taskShares, serial, clock>>

\* storage.deleteTask (the delete cascades to task_shares), and the status
\* mapping of DELETE /api/tasks/:id
deleteTask(p) ==
    LET r == req[p]
        returning == {t \in tasks : deleteTaskWhere(t, r.taskId, r.user)}
    IN  /\ r.pc = "deleteTask"
        /\ tasks' = tasks \ returning
        /\ taskShares' = onDeleteCascade(returning)
        /\ req' = [req EXCEPT ![p] =
             IF returning = {}
             THEN Respond(r, 404, "Task not found or access denied", << >>)
             ELSE Respond(r, 204, "", << >>)]
        /\ UNCHANGED <<users, serial, clock>>

\* POST /api/tasks/share: storage.getUserByEmail (LIMIT 1 without ORDER BY
\* returns any one of the matching rows)
getUserByEmail(p) ==
    LET r == req[p]
        rows == getUserByEmailRows(r.data.email)
    IN  /\ r.pc = "getUserByEmail"
        /\ IF rows = {}
           THEN req' = [req EXCEPT ![p].pc = "createPlaceholderUser"]
           ELSE \E u \in rows :
                   req' = [req EXCEPT ![p].pc = "getTaskShares", ![p].sharedWith = u.id]
        /\ UNCHANGED store

\* POST /api/tasks/share: storage.createUser for the placeholder user
\* (provisioned: the row this request inserted, for as long as it runs)
createPlaceholderUser(p) ==
    LET r == req[p]
        row == [id |-> serial.users + 1,
                firebaseUid |-> PlaceholderUid(clock, r.data.email),
                email |-> r.data.email]
    IN  /\ r.pc = "createPlaceholderUser"
        /\ serial' = [serial EXCEPT !.users = @ + 1]
        /\ IF usersUniqueOk(row)
           THEN /\ users' = users \cup {row}
                /\ req' = [req EXCEPT ![p].pc = "getTaskShares", ![p].sharedWith = row.id,
                                       ![p].provisioned = row.id]
           ELSE /\ users' = users
                /\ req' = [req EXCEPT ![p] = Respond500(r)]
        /\ UNCHANGED <<tasks, taskShares, clock>>

\* alreadyShared of POST /api/tasks/share
alreadyShared_never(existingShares, sharedWithId) == FALSE

alreadyShared(existingShares, sharedWithId) ==
    \E share \in existingShares : share.sharedWithId = sharedWithId

\* storage.getTaskShares, in POST /api/tasks/share and GET /api/tasks/:id/shares
getTaskShares(p) ==
    LET r == req[p]
        existingShares == {ShareWithUser(s) : s \in taskSharesByTask(r.taskId)}
    IN  /\ r.pc = "getTaskShares"
        /\ req' = [req EXCEPT ![p] =
             IF r.kind = "getShares"
             THEN Respond(r, 200, "", <<existingShares>>)
             ELSE IF alreadyShared(existingShares, r.sharedWith)
             THEN Respond(r, 400, "Task is already shared with this user", << >>)
             ELSE [r EXCEPT !.pc = "shareTask"]]
        /\ UNCHANGED store

\* storage.shareTask
shareTask(p) ==
    LET r == req[p]
        row == [id |-> serial.taskShares + 1, taskId |-> r.taskId,
                sharedWithId |-> r.sharedWith, permission |-> r.data.permission]
    IN  /\ r.pc = "shareTask"
        /\ serial' = [serial EXCEPT !.taskShares = @ + 1]
        /\ IF taskSharesFkOk(row)
           THEN /\ taskShares' = taskShares \cup {row}
                /\ req' = [req EXCEPT ![p] = Respond(r, 201, "", <<row>>)]
           ELSE /\ taskShares' = taskShares
                /\ req' = [req EXCEPT ![p] = Respond500(r)]
        /\ UNCHANGED <<users, tasks, clock>>

\* storage.removeTaskShare, and the status mapping of
\* DELETE /api/tasks/:id/shares/:userId
removeTaskShare(p) ==
    LET r == req[p]
        returning == {s \in taskShares : removeTaskShareWhere(s, r.taskId, r.userId)}
    IN  /\ r.pc = "removeTaskShare"
        /\ taskShares' = taskShares \ returning
        /\ req' = [req EXCEPT ![p] =
             IF returning = {}
             THEN Respond(r, 404, "Share not found", << >>)
             ELSE Respond(r, 204, "", << >>)]
        /\ UNCHANGED <<users, tasks, serial, clock>>

\* GET /api/tasks: res.json([...ownedTasks, ...sharedTasks]) once both
\* promises of Promise.all have resolved
AllTasks_searchAll(r) ==
    IF r.ownedPc = "done" /\ r.sharedPc = "done"
    THEN Respond(r, 200, "",
                 SelectSeq(r.owned \o r.shared,
                           LAMBDA t : \/ r.search = NoText
                                      \/ ilike(t.title, r.search)
                                      \/ ilike(t.description, r.search)))
    ELSE r

AllTasks(r) ==
    IF r.ownedPc = "done" /\ r.sharedPc = "done"
    THEN Respond(r, 200, "", r.owned \o r.shared)
    ELSE r

\* storage.getTasksByUserId, the task query
getTasksByUserId(p) ==
    LET r == req[p]
        rows == {t \in tasks : getTasksByUserIdWhere(t, r.user, r.search)}
    IN  /\ r.pc = "getTasks" /\ r.ownedPc = "query"
        /\ \E tasksResult \in SeqsOf(rows) :
             /\ OrderByCreatedAtDesc([i \in DOMAIN tasksResult |-> tasksResult[i].createdAt])
             /\ req' = [req EXCEPT ![p] =
                  AllTasks([r EXCEPT !.task = tasksResult,
                                     !.ownedPc = IF rows = {} THEN "done" ELSE "shares"])]
        /\ UNCHANGED store

\* storage.getTasksByUserId, the share query of the next row of the loop
getTasksByUserId_shares(p) ==
    LET r == req[p]
        task == Head(r.task)
        shares == {ShareWithUser(s) : s \in taskSharesByTask(task.id)}
    IN  /\ r.pc = "getTasks" /\ r.ownedPc = "shares"
        /\ req' = [req EXCEPT ![p] =
             AllTasks([r EXCEPT !.owned = Append(@, TaskWithOwner(task, shares)),
                                !.task = Tail(@),
                                !.ownedPc = IF Tail(r.task) = << >> THEN "done"
                                            ELSE "shares"])]
        /\ UNCHANGED store

\* storage.getUserSharedTasks: one row per share row, joined with its task
\* and the task's owner; shares: []
getUserSharedTasks(p) ==
    LET r == req[p]
        rows == {s \in taskShares : getUserSharedTasksWhere(s, r.user)}
        taskOf(s) == CHOOSE t \in tasks : t.id = s.taskId
    IN  /\ r.pc = "getTasks" /\ r.sharedPc = "query"
        /\ \E result \in SeqsOf(rows) :
             /\ OrderByCreatedAtDesc([i \in DOMAIN result |-> taskOf(result[i]).createdAt])
             /\ req' = [req EXCEPT ![p] =
                  AllTasks([r EXCEPT !.shared = [i \in DOMAIN result |->
                                                   TaskWithOwner(taskOf(result[i]), {})],
                                     !.sharedPc = "done"])]
        /\ UNCHANGED store

\* ------------------------------------------------------------------- inputs
Request(kind, header, taskId, userId, search, body) ==
    [kind |-> kind, header |-> header, taskId |-> taskId, userId |-> userId,
     search |-> search, body |-> body]

BearerOf(i) == [scheme |-> "Bearer", token |-> i]

GoodHeaders == {BearerOf(i) : i \in Idents}

NoHeader == [scheme |-> "none", token |-> 0]

BadHeaders == {NoHeader, [scheme |-> "Basic", token |-> 1], BearerOf(0)}

CreateBodies ==
    { [title |-> <<"a">>],
      [title |-> <<"a">>, ownerId |-> 1, id |-> 9],
      [description |-> <<"a">>] }

UpdateBodies ==
    { << >>,
      [status |-> "completed"],
      [status |-> "todo", ownerId |-> 1],
      [status |-> "done"] }

\* the address of somebody who never signs in
StrangerEmail == EmailOf(NumIdents + 1)

ShareBodies ==
    {[taskId |-> t, email |-> e, permission |-> m] :
        t \in TaskIds, e \in Emails, m \in SharePermission}
    \cup {[taskId |-> 1, email |-> EmailOf(1), permission |-> "admin"],
          [taskId |-> 1, email |-> StrangerEmail, permission |-> "view"]}

SearchTerms == {NoText}

Requests ==
    {Request("getUser", h, 0, 0, NoText, NoBody) : h \in GoodHeaders}
    \cup {Request("getTasks", h, 0, 0, s, NoBody) : h \in GoodHeaders, s \in SearchTerms}
    \cup {Request("getTask", h, t, 0, NoText, NoBody) : h \in GoodHeaders, t \in TaskIds}
    \cup {Request("createTask", h, 0, 0, NoText, b) : h \in GoodHeaders, b \in CreateBodies}
    \cup {Request("updateTask", h, t, 0, NoText, b) :
            h \in GoodHeaders, t \in TaskIds, b \in UpdateBodies}
    \cup {Request("deleteTask", h, t, 0, NoText, NoBody) : h \in GoodHeaders, t \in TaskIds}
    \cup {Request("shareTask", h, 0, 0, NoText, b) : h \in GoodHeaders, b \in ShareBodies}
    \cup {Request("getShares", h, t, 0, NoText, NoBody) : h \in GoodHeaders, t \in TaskIds}
    \cup {Request("removeShare", h, t, u, NoText, NoBody) :
            h \in GoodHeaders, t \in TaskIds, u \in UserIds}
    \cup {Request(k, NoHeader, 1, 1, NoText, NoBody) : k \in Kinds}
    \cup {Request("getTasks", h, 0, 0, NoText, NoBody) : h \in BadHeaders}

\* ----------------------------------------------------------- specifications
\* Requests served one at a time: every request kind, every input above.
Next ==
    \/ Tick(MaxGrowth)
    \/ authenticateUser("p1", Requests, MaxGrowth)
    \/ createUser("p1")
    \/ getTaskById("p1")
    \/ getTaskById_shares("p1")
    \/ createTask("p1", MaxGrowth, {0, 1})
    \/ updateTask("p1")
    \/ deleteTask("p1")
    \/ getUserByEmail("p1")
    \/ createPlaceholderUser("p1")
    \/ getTaskShares("p1")
    \/ shareTask("p1")
    \/ removeTaskShare("p1")
    \/ getTasksByUserId("p1")
    \/ getTasksByUserId_shares("p1")
    \/ getUserSharedTasks("p1")

Spec == Init /\ [][Next]_vars

\* Requests served one at a time, restricted to the life of a share: one
\* owner creates, shares and deletes a task, every user reads.  The cap
\* leaves room for a share recorded against a placeholder user, the
\* recipient's first login and a further share request.
ShareRequests ==
    {Request("createTask", BearerOf(1), 0, 0, NoText, [title |-> <<"a">>]),
     Request("deleteTask", BearerOf(1), 1, 0, NoText, NoBody)}
    \cup {Request("shareTask", BearerOf(1), 0, 0, NoText,
                  [taskId |-> 1, email |-> e, permission |-> "view"]) : e \in Emails}
    \cup {Request("getTasks", h, 0, 0, NoText, NoBody) : h \in GoodHeaders}
    \cup {Request("getTask", h, 1, 0, NoText, NoBody) : h \in GoodHeaders}

ShareNext ==
    \/ authenticateUser("p1", ShareRequests, ShareGrowth)
    \/ createUser("p1")
    \/ createTask("p1", ShareGrowth, {0})
    \/ deleteTask("p1")
    \/ getTaskById("p1")
    \/ getTaskById_shares("p1")
    \/ getUserByEmail("p1")
    \/ createPlaceholderUser("p1")
    \/ getTaskShares("p1")
    \/ shareTask("p1")
    \/ getTasksByUserId("p1")
    \/ getTasksByUserId_shares("p1")
    \/ getUserSharedTasks("p1")

ShareSpec == Init /\ [][ShareNext]_vars

\* Two requests in flight at a time, interleaved at statement boundaries:
\* one owner creating, sharing and deleting a task.
ConcRequests ==
    {Request("createTask", BearerOf(1), 0, 0, NoText, [title |-> <<"a">>]),
     Request("deleteTask", BearerOf(1), 1, 0, NoText, NoBody)}
    \cup {Request("shareTask", BearerOf(1), 0, 0, NoText,
                  [taskId |-> 1, email |-> e, permission |-> "view"]) : e \in Emails}

ConcNext ==
    \E p \in Procs :
        \/ authenticateUser(p, ConcRequests, ConcGrowth)
        \/ createUser(p)
        \/ createTask(p, ConcGrowth, {0})
        \/ deleteTask(p)
        \/ getTaskById(p)
        \/ getTaskById_shares(p)
        \/ getUserByEmail(p)
        \/ createPlaceholderUser(p)
        \/ getTaskShares(p)
        \/ shareTask(p)

ConcSpec == Init /\ [][ConcNext]_vars

\* Requests served one at a time, restricted to searching: two users create
\* tasks whose titles and descriptions differ in case, one of them lists
\* the tasks with and without a search term.
SearchBodies ==
    { [title |-> <<"a", "B">>],
      [title |-> <<"b">>, description |-> <<"A">>] }

SearchStrings == {NoText, <<"a">>, <<"B">>, <<"b", "a">>, <<"_">>}

SearchRequests ==
    {Request("createTask", h, 0, 0, NoText, b) : h \in GoodHeaders, b \in SearchBodies}
    \cup {Request("getTasks", BearerOf(1), 0, 0, x, NoBody) : x \in SearchStrings}

SearchNext ==
    \/ Tick(SearchGrowth)
    \/ authenticateUser("p1", SearchRequests, SearchGrowth)
    \/ createUser("p1")
    \/ createTask("p1", SearchGrowth, {0})
    \/ getTasksByUserId("p1")
    \/ getTasksByUserId_shares("p1")
    \/ getUserSharedTasks("p1")

SearchSpec == Init /\ [][SearchNext]_vars

\* Requests served one at a time, from two clients: the first sends the
\* owner's requests (create a task, share it, remove a share), the second
\* reads the task, its shares and the list of tasks, as either identity.  The answer to
\* each client's last request stays in view while the other is served.
OwnerRequests ==
    {Request("createTask", BearerOf(1), 0, 0, NoText, [title |-> <<"a">>])}
    \cup {Request("shareTask", BearerOf(1), 0, 0, NoText,
                  [taskId |-> 1, email |-> e, permission |-> m]) :
             e \in Emails, m \in SharePermission}
    \cup {Request("removeShare", BearerOf(1), 1, u, NoText, NoBody) : u \in UserIds}

ReaderRequests ==
    {Request("getTasks", h, 0, 0, NoText, NoBody) : h \in GoodHeaders}
    \cup {Request("getTask", h, 1, 0, NoText, NoBody) : h \in GoodHeaders}
    \cup {Request("getShares", h, 1, 0, NoText, NoBody) : h \in GoodHeaders}

\* no request of another client is in flight
Alone(p) == \A q \in Procs \ {p} : ~InFlight(req[q])

RemoveNext ==
    \E p \in Procs :
        \/ /\ Alone(p)
           /\ authenticateUser(p, IF p = "p1" THEN OwnerRequests ELSE ReaderRequests,
                               ShareGrowth)
        \/ createUser(p)
        \/ createTask(p, ShareGrowth, {0})
        \/ getTaskById(p)
        \/ getTaskById_shares(p)
        \/ getUserByEmail(p)
        \/ createPlaceholderUser(p)
        \/ getTaskShares(p)
        \/ shareTask(p)
        \/ removeTaskShare(p)
        \/ getTasksByUserId(p)
        \/ getTasksByUserId_shares(p)
        \/ getUserSharedTasks(p)

RemoveSpec == Init /\ [][RemoveNext]_vars

\* Requests served one at a time, from two clients: the first creates tasks
\* in every status, the second updates the status of task 1, as either
\* identity, to every status and to a value outside the enumeration.
StatusCreateRequests ==
    {Request("createTask", BearerOf(1), 0, 0, NoText, [title |-> <<"a">>])}
    \cup {Request("createTask", BearerOf(1), 0, 0, NoText,
                  [title |-> <<"a">>, status |-> x]) : x \in TaskStatus}

StatusUpdateRequests ==
    {Request("updateTask", h, 1, 0, NoText, [status |-> x]) :
        h \in GoodHeaders, x \in TaskStatus \cup {"done"}}

StatusNext ==
    \/ Tick(MaxGrowth)
    \/ \E p \in Procs :
          \/ /\ Alone(p)
             /\ authenticateUser(p, IF p = "p1" THEN StatusCreateRequests
                                    ELSE StatusUpdateRequests, MaxGrowth)
          \/ createUser(p)
          \/ createTask(p, MaxGrowth, {0})
          \/ updateTask(p)

StatusSpec == Init /\ [][StatusNext]_vars

\* Requests served one at a time, restricted to searching among owned and
\* shared tasks: both users create tasks, the first shares task 1 with the
\* second, the second lists the tasks with and without a search term.
SharedSearchStrings == {NoText, <<"a">>, <<"x">>}

SharedSearchRequests ==
    {Request("createTask", h, 0, 0, NoText, b) : h \in GoodHeaders, b \in SearchBodies}
    \cup {Request("shareTask", BearerOf(1), 0, 0, NoText,
                  [taskId |-> 1, email |-> EmailOf(2), permission |-> "view"])}
    \cup {Request("getTasks", BearerOf(2), 0, 0, x, NoBody) : x \in SharedSearchStrings}

SharedSearchNext ==
    \/ authenticateUser("p1", SharedSearchRequests, ShareGrowth)
    \/ createUser("p1")
    \/ createTask("p1", ShareGrowth, {0})
    \/ getTaskById("p1")
    \/ getTaskById_shares("p1")
    \/ getUserByEmail("p1")
    \/ createPlaceholderUser("p1")
    \/ getTaskShares("p1")
    \/ shareTask("p1")
    \/ getTasksByUserId("p1")
    \/ getTasksByUserId_shares("p1")
    \/ getUserSharedTasks("p1")

SharedSearchSpec == Init /\ [][SharedSearchNext]_vars

\* ------------------------------------------------------------------ claims
Owns(userId, taskId) == \E t \in tasks : t.id = taskId /\ t.ownerId = userId

Done(r) == r.pc = "done"

\* process p takes the step
Stepped(p) == req'[p] # req[p]

\* C1: updateTask by a user who is not the owner of the task never succeeds:
\* the request ends with the error 'Task not found or access denied' (404)
\* and the tasks table, update timestamps included, is unchanged.
C1_NonOwnerUpdateRejected ==
    [][\A p \in Procs :
          (req[p].pc = "updateTask" /\ Stepped(p)
             /\ ~Owns(req[p].user, req[p].taskId))
          => /\ tasks' = tasks
             /\ Done(req'[p])
             /\ req'[p].status = 404
             /\ req'[p].message = "Task not found or access denied"]_vars

\* a non-owner's update of an existing task was refused although its patch
\* and the clock would have changed the row
C1_Witness ==
    \E p \in Procs : \E t \in tasks :
        /\ Done(req[p]) /\ req[p].kind = "updateTask" /\ req[p].status = 404
        /\ t.id = req[p].taskId /\ t.ownerId # req[p].user /\ req[p].user # 0
        /\ "status" \in DOMAIN req[p].body /\ req[p].body.status \in TaskStatus
        /\ req[p].body.status # t.status
        /\ clock > t.updatedAt

\* C2: deleteTask by a user who is not the owner of an existing task removes
\* nothing: the tasks and task_shares tables are unchanged and the request
\* is answered 404.
C2_NonOwnerDeleteNoOp ==
    [][\A p \in Procs :
          (req[p].pc = "deleteTask" /\ Stepped(p)
             /\ \E t \in tasks : t.id = req[p].taskId /\ t.ownerId # req[p].user)
          => /\ tasks' = tasks
             /\ taskShares' = taskShares
             /\ Done(req'[p])
             /\ req'[p].status = 404]_vars

\* a non-owner's delete of an existing, shared task was answered 404
C2_Witness ==
    \E p \in Procs : \E t \in tasks :
        /\ Done(req[p]) /\ req[p].kind = "deleteTask" /\ req[p].status = 404
        /\ t.id = req[p].taskId /\ t.ownerId # req[p].user /\ req[p].user # 0
        /\ taskSharesByTask(t.id) # {}

\* C3: the owner of a task never changes: no step changes the ownerId of a
\* task row that exists before and after it, and a task id is never handed
\* out again.
C3_OwnerNeverChanges ==
    [][/\ \A t \in tasks : \A u \in tasks' : u.id = t.id => u.ownerId = t.ownerId
       /\ \A u \in tasks' : (\A t \in tasks : t.id # u.id) => u.id > serial.tasks]_vars

\* the owner's update carried an ownerId naming somebody else and succeeded
C3_Witness ==
    \E p \in Procs : \E t \in tasks :
        /\ Done(req[p]) /\ req[p].kind = "updateTask" /\ req[p].status = 200
        /\ t.id = req[p].taskId
        /\ "ownerId" \in DOMAIN req[p].body
        /\ req[p].body.ownerId # t.ownerId

\* C4: GET /tasks/:id by an authenticated user answers 200 with the task
\* exactly when the task exists and the user owns it or is the recipient of
\* one of its share rows; an existing task for which neither holds answers
\* 403, a task id that does not exist answers 404.
C4_GetTaskAccess ==
    \A p \in Procs :
        (Done(req[p]) /\ req[p].kind = "getTask" /\ req[p].ident # 0) =>
            LET r == req[p]
                exists == taskRowsById(r.taskId) # {}
                allowed ==
                    \E t \in tasks :
                        /\ t.id = r.taskId
                        /\ \/ t.ownerId = r.user
                           \/ \E s \in taskShares :
                                 s.taskId = t.id /\ s.sharedWithId = r.user
            IN  /\ r.user # 0
                /\ r.status = 200 <=> allowed
                /\ r.status = 200 => r.result[1].id = r.taskId
                /\ (exists /\ ~allowed) => r.status = 403
                /\ ~exists => r.status = 404

\* a share recipient who is not the owner read the task
C4_Witness ==
    \E p \in Procs :
        /\ Done(req[p]) /\ req[p].kind = "getTask" /\ req[p].status = 200
        /\ req[p].result[1].ownerId # req[p].user
        /\ \E s \in taskShares :
              s.taskId = req[p].taskId /\ s.sharedWithId = req[p].user

\* C5: a share row is inserted only by a POST /tasks/share whose requester
\* owns the task; every step of such a request by a user who does not own
\* the task (or for a task id that does not exist) leaves the users and
\* task_shares tables and their sequences unchanged, and the request ends
\* with 403 at its ownership check.
C5_ShareOnlyByOwner ==
    [][/\ \A s \in taskShares' \ taskShares :
             \E p \in Procs :
                 /\ req[p].kind = "shareTask" /\ req[p].pc = "shareTask" /\ Stepped(p)
                 /\ s.taskId = req[p].taskId
                 /\ Owns(req[p].user, s.taskId)
       /\ \A p \in Procs :
             (req[p].kind = "shareTask" /\ InFlight(req[p]) /\ req[p].user # 0
                /\ Stepped(p) /\ ~Owns(req[p].user, req[p].taskId))
             => /\ users' = users
                /\ taskShares' = taskShares
                /\ serial' = serial
                /\ req'[p].pc \in {"done", "getTaskById_shares"}
                /\ Done(req'[p]) => req'[p].status = 403]_vars

\* a user who does not own an existing task asked to share it with an e-mail
\* address no user row carries, and was answered 403
C5_Witness ==
    \E p \in Procs : \E t \in tasks :
        /\ Done(req[p]) /\ req[p].kind = "shareTask" /\ req[p].status = 403
        /\ t.id = req[p].taskId /\ t.ownerId # req[p].user /\ req[p].user # 0
        /\ getUserByEmailRows(req[p].body.email) = {}

\* C6: GET /tasks/:id/shares and DELETE /tasks/:id/shares/:userId succeed
\* only for the owner of the task; for any other requester, a share
\* recipient removing the own share included, every step leaves task_shares
\* unchanged and the request ends with 403 at its ownership check.
C6_SharesOwnerOnly ==
    [][\A p \in Procs :
          /\ (req[p].kind \in {"getShares", "removeShare"} /\ InFlight(req[p])
                /\ req[p].user # 0 /\ Stepped(p)
                /\ ~Owns(req[p].user, req[p].taskId))
             => /\ taskShares' = taskShares
                /\ req'[p].pc \in {"done", "getTaskById_shares"}
                /\ Done(req'[p]) => req'[p].status = 403
          /\ (req'[p].kind \in {"getShares", "removeShare"} /\ Stepped(p)
                /\ Done(req'[p]) /\ req'[p].status \in {200, 204})
             => Owns(req'[p].user, req'[p].taskId)]_vars

\* a share recipient asked to remove the own share and was answered 403,
\* the share row still in place
C6_Witness ==
    \E p \in Procs : \E s \in taskShares :
        /\ Done(req[p]) /\ req[p].kind = "removeShare" /\ req[p].status = 403
        /\ s.taskId = req[p].taskId /\ s.sharedWithId = req[p].user
        /\ req[p].userId = req[p].user
        /\ ~Owns(req[p].user, req[p].taskId)

\* C7: when the owner asks to share a task with an e-mail address while a
\* share row of that task already names a user carrying that address, the
\* request ends with 400 and task_shares is unchanged.
C7_DuplicateShareRejected ==
    [][\A p \in Procs :
          (req[p].kind = "shareTask" /\ InFlight(req[p]) /\ Stepped(p)
             /\ Done(req'[p])
             /\ Owns(req[p].user, req[p].taskId)
             /\ \E s \in taskSharesByTask(req[p].taskId) :
                   \E u \in getUserByEmailRows(req[p].body.email) :
                       s.sharedWithId = u.id)
          => /\ req'[p].status = 400
             /\ taskShares' = taskShares]_vars

\* C8: a delete answered 204 leaves no row of the task and no share row of
\* it; and for every task id handed out whose row is gone, no share row
\* names it, a completed GET /tasks/:id of it was answered 404 and no
\* completed GET /tasks lists it.
C8_DeleteCascades ==
    [][/\ \A p \in Procs :
             (req[p].pc = "deleteTask" /\ Stepped(p) /\ req'[p].status = 204)
             => /\ Owns(req[p].user, req[p].taskId)
                /\ \A t \in tasks' : t.id # req[p].taskId
                /\ \A s \in taskShares' : s.taskId # req[p].taskId
       /\ \A id \in 1 .. serial'.tasks :
             (\A t \in tasks' : t.id # id)
             => /\ \A s \in taskShares' : s.taskId # id
                /\ \A p \in Procs :
                      (Done(req'[p]) /\ req'[p].kind = "getTask"
                         /\ req'[p].ident # 0 /\ req'[p].taskId = id)
                      => req'[p].status = 404
                /\ \A p \in Procs :
                      (Done(req'[p]) /\ req'[p].kind = "getTasks"
                         /\ req'[p].status = 200)
                      => \A i \in DOMAIN req'[p].result :
                             req'[p].result[i].id # id]_vars

\* the task was shared with two users and deleted; a former recipient who is
\* not the owner lists the tasks and gets none
C8_Witness ==
    \E p \in Procs :
        /\ Done(req[p]) /\ req[p].kind = "getTasks" /\ req[p].status = 200
        /\ req[p].result = << >>
        /\ req[p].user = 2
        /\ serial.tasks = 1 /\ tasks = {}
        /\ serial.taskShares = 2 /\ taskShares = {}
        /\ Cardinality(users) = 2

\* C9: in every reachable state, requests interleaving at statement
\* boundaries, every share row references an existing task and an existing
\* recipient, and every task references an existing owner.
C9_ReferentialIntegrity ==
    /\ \A s \in taskShares :
          /\ \E t \in tasks : t.id = s.taskId
          /\ \E u \in users : u.id = s.sharedWithId
    /\ \A t \in tasks : \E u \in users : u.id = t.ownerId

\* a share-create passed its ownership check, the task was deleted by a
\* concurrent request, and the insert was refused (no user insert ever
\* failed, so the 500 is the insert's)
C9_Witness ==
    \E p \in Procs : \E q \in Procs \ {p} :
        /\ Done(req[p]) /\ req[p].kind = "shareTask" /\ req[p].status = 500
        /\ req[p].user # 0
        /\ serial.users = Cardinality(users)
        /\ taskRowsById(req[p].taskId) = {}
        /\ Done(req[q]) /\ req[q].kind = "deleteTask" /\ req[q].status = 204
        /\ req[q].taskId = req[p].taskId

\* C10: GET /tasks without a search term answers 200 with exactly the tasks
\* the requester owns and the tasks shared to the requester.
C10_ListIsVisibleSet ==
    \A p \in Procs :
        (Done(req[p]) /\ req[p].kind = "getTasks" /\ req[p].ident # 0
           /\ req[p].search = NoText)
        => LET r == req[p]
               visible ==
                   {t \in tasks :
                       \/ t.ownerId = r.user
                       \/ \E s \in taskShares :
                             s.taskId = t.id /\ s.sharedWithId = r.user}
           IN  /\ r.status = 200
               /\ {r.result[i].id : i \in DOMAIN r.result} = {t.id : t \in visible}
               /\ \A i \in DOMAIN r.result :
                     \E t \in visible :
                         /\ r.result[i].id = t.id
                         /\ r.result[i].ownerId = t.ownerId
                         /\ r.result[i].title = t.title
                         /\ r.result[i].status = t.status

\* the list holds a task the requester owns and a task shared to the
\* requester by somebody else, while another task is visible to neither
C10_Witness ==
    \E p \in Procs :
        /\ Done(req[p]) /\ req[p].kind = "getTasks" /\ req[p].status = 200
        /\ \E i, j \in DOMAIN req[p].result :
              /\ req[p].result[i].ownerId = req[p].user
              /\ req[p].result[j].ownerId # req[p].user

\* C11: while a share row of an existing task names a user carrying the
\* e-mail address of identity B (the share request with B's address was
\* answered 201 and the share was not removed), every completed GET /tasks
\* of B lists the task with its owner, whether B signed in before the share
\* or only after it was recorded against a placeholder user.
C11_SharedTaskListed ==
    \A p \in Procs :
        (Done(req[p]) /\ req[p].kind = "getTasks" /\ req[p].status = 200)
        => \A s \in taskShares : \A u \in users : \A t \in tasks :
               (u.id = s.sharedWithId /\ u.email = EmailOf(req[p].ident)
                  /\ t.id = s.taskId)
               => \E i \in DOMAIN req[p].result :
                      /\ req[p].result[i].id = t.id
                      /\ req[p].result[i].ownerId = t.ownerId

NoPermission(S) ==
    {[id |-> s.id, taskId |-> s.taskId, sharedWithId |-> s.sharedWithId] : s \in S}

C14_Unauthenticated401 ==
    [][\A p \in Procs :
          (Stepped(p) /\ ~InFlight(req[p])
             /\ \/ req'[p].header.scheme # "Bearer"
                \/ req'[p].header.token \notin Idents)
          => /\ Done(req'[p])
             /\ req'[p].status = 401
             /\ req'[p].user = 0
             /\ req'[p].result = << >>
             /\ UNCHANGED store]_vars

\* a request carrying a Bearer token that the verifier rejects was answered
\* 401 while users exist
C14_Witness ==
    \E p \in Procs :
        /\ Done(req[p]) /\ req[p].status = 401
        /\ req[p].header.scheme = "Bearer" /\ req[p].header.token \notin Idents
        /\ req[p].message = "Invalid token"
        /\ users # {}

\* C15: every task row that appears was inserted by a POST /tasks whose
\* requester, the user resolved from the credential, is its owner, whatever
\* the body says: the row carries the requester's user id and the next id of
\* the sequence, and is the row the request answers with.
C15_CreatorIsOwner ==
    [][\A t \in tasks' :
          (\A old \in tasks : old.id # t.id)
          => \E p \in Procs :
                 /\ req[p].pc = "createTask" /\ Stepped(p)
                 /\ t.ownerId = req[p].user
                 /\ \E u \in users : /\ u.id = req[p].user
                                     /\ u.firebaseUid = FirebaseUid(req[p].ident)
                 /\ t.id = serial.tasks + 1
                 /\ req'[p].status = 201
                 /\ req'[p].result = <<t>>]_vars

\* a task was created from a body whose ownerId names another, existing
\* user, and is owned by the requester
C15_Witness ==
    \E p \in Procs :
        /\ Done(req[p]) /\ req[p].kind = "createTask" /\ req[p].status = 201
        /\ "ownerId" \in DOMAIN req[p].body
        /\ req[p].body.ownerId # req[p].user
        /\ \E u \in users : u.id = req[p].body.ownerId
        /\ req[p].result[1].ownerId = req[p].user
        /\ req[p].result[1] \in tasks

\* C16: under any interleaving of requests no two user rows share a subject
\* identifier (or an id), and the user a request has resolved is the row of
\* its own subject; as user rows are never changed or removed, every request
\* of one subject resolves to the same local user id.
C16_OneUserPerSubject ==
    /\ \A u, v \in users :
          (u.firebaseUid = v.firebaseUid \/ u.id = v.id) => u = v
    /\ \A p \in Procs :
          (req[p].user # 0 /\ req[p].ident # 0)
          => \E u \in users : /\ u.id = req[p].user
                              /\ u.firebaseUid = FirebaseUid(req[p].ident)

\* two first requests of one unseen subject ran concurrently: one inserted
\* the user row and went on, the other's insert was refused
C16_Witness ==
    \E p \in Procs : \E q \in Procs \ {p} :
        /\ Done(req[p]) /\ req[p].status = 500 /\ req[p].user = 0
        /\ req[p].ident # 0
        /\ req[q].ident = req[p].ident /\ req[q].user # 0
        /\ Cardinality(getUserByFirebaseUidRows(FirebaseUid(req[p].ident))) = 1

\* C17: the answer of PUT /tasks/:id and DELETE /tasks/:id is computed from
\* the request and the tasks the requester owns alone: when the requester
\* owns no task of that id the response is 404 'Task not found or access
\* denied' with no body, whether or not somebody else's task has the id.
C17_MismatchLikeAbsence ==
    [][\A p \in Procs :
          (req[p].pc \in {"updateTask", "deleteTask"} /\ Stepped(p)) =>
              LET r == req[p]
                  mine == {t \in tasks : t.ownerId = r.user}
                  hit == {t \in mine : t.id = r.taskId}
              IN  req'[p] \in
                      IF hit = {}
                      THEN {Respond(r, 404, "Task not found or access denied", << >>)}
                      ELSE IF r.pc = "deleteTask"
                      THEN {Respond(r, 204, "", << >>)}
                      ELSE {Respond(r, 200, "", <<updateTaskSet(t, r.data, clock)>>) :
                              t \in hit}]_vars

\* a user asked to delete a task id whose row its owner, somebody else, had
\* deleted before, while that owner still has another task
C17_Witness ==
    \E p \in Procs :
        /\ Done(req[p]) /\ req[p].kind = "deleteTask" /\ req[p].status = 404
        /\ req[p].message = "Task not found or access denied"
        /\ req[p].user # 0
        /\ req[p].taskId <= serial.tasks
        /\ taskRowsById(req[p].taskId) = {}
        /\ \E t \in tasks : t.ownerId # req[p].user

\* text hay contains text needle, letter case ignored
ContainsIgnoringCase(hay, needle) ==
    \E k \in 0 .. (Len(hay) - Len(needle)) :
        \A i \in 1 .. Len(needle) : Lower(hay[k + i]) = Lower(needle[i])

\* C18: getTasksByUserId(userId, searchTerm) returns exactly the tasks owned
\* by userId whose title or description contains searchTerm, letter case
\* ignored (a task with no description matches through its title only),
\* each once and newest-created first; with no search term, all tasks owned
\* by userId.  Stated on the completed GET /tasks of a user nothing is shared
\* with, whose response is that list.
C18_SearchExact ==
    \A p \in Procs :
        (/\ Done(req[p]) /\ req[p].kind = "getTasks" /\ req[p].status = 200
         /\ \A s \in taskShares : s.sharedWithId # req[p].user)
        => LET r == req[p]
               want ==
                   {t \in tasks :
                       /\ t.ownerId = r.user
                       /\ \/ r.search = NoText
                          \/ ContainsIgnoringCase(t.title, r.search)
                          \/ /\ t.description # NoText
                             /\ ContainsIgnoringCase(t.description, r.search)}
           IN  /\ {r.result[i].id : i \in DOMAIN r.result} = {t.id : t \in want}
               /\ Len(r.result) = Cardinality(want)
               /\ \A i, j \in DOMAIN r.result :
                     i < j => r.result[i].createdAt >= r.result[j].createdAt

\* C19: the duplicate-share check and the share insert are separate
\* statements and the insert checks the foreign keys only: whenever a
\* share-create reaches its insert while the task and the recipient exist,
\* the row is inserted and the request answered 201, whatever rows
\* task_shares holds by then.  Two concurrent requests for one (task,
\* recipient) pair can therefore both insert (the witness).
C19_InsertRechecksNothing ==
    [][\A p \in Procs :
          (/\ req[p].pc = "shareTask" /\ Stepped(p)
           /\ \E t \in tasks : t.id = req[p].taskId
           /\ \E u \in users : u.id = req[p].sharedWith)
          => /\ req'[p].status = 201
             /\ taskShares' =
                   taskShares \cup {[id |-> serial.taskShares + 1,
                                     taskId |-> req[p].taskId,
                                     sharedWithId |-> req[p].sharedWith,
                                     permission |-> req[p].data.permission]}]_vars

\* two concurrent share-creates of the owner for one task and one recipient,
\* not the owner, were both answered 201 and left two share rows for the pair
C19_Witness ==
    \E s1, s2 \in taskShares :
        /\ s1.id # s2.id
        /\ s1.taskId = s2.taskId /\ s1.sharedWithId = s2.sharedWithId
        /\ \A p \in Procs :
              /\ Done(req[p]) /\ req[p].kind = "shareTask" /\ req[p].status = 201
              /\ req[p].taskId = s1.taskId
              /\ req[p].user # s1.sharedWithId
        /\ req["p1"].result # req["p2"].result

\* C20: no share row names the owner of its task as recipient, and no
\* completed GET /tasks lists a task twice.
C20_NoSelfShare ==
    /\ \A s \in taskShares : \A t \in tasks :
          t.id = s.taskId => s.sharedWithId # t.ownerId
    /\ \A p \in Procs :
          (Done(req[p]) /\ req[p].kind = "getTasks" /\ req[p].status = 200)
          => \A i, j \in DOMAIN req[p].result :
                 req[p].result[i].id = req[p].result[j].id => i = j

\* C21: with requests served one at a time, no reachable state holds two
\* share rows with the same (task, recipient user) pair, whatever sequence of
\* share-create, share-remove, task-create, task-delete and first-login
\* requests was served.
C21_PairUniqueSequential ==
    \A s1, s2 \in taskShares :
        (s1.taskId = s2.taskId /\ s1.sharedWithId = s2.sharedWithId) => s1 = s2

\* the owner asked again to share a task with a recipient, not the owner,
\* whose share row is in place, and was answered 400
C21_Witness ==
    \E p \in Procs : \E s \in taskShares :
        /\ Done(req[p]) /\ req[p].kind = "shareTask" /\ req[p].status = 400
        /\ req[p].message = "Task is already shared with this user"
        /\ s.taskId = req[p].body.taskId
        /\ s.sharedWithId # req[p].user
        /\ \E u \in users : u.id = s.sharedWithId /\ u.email = req[p].body.email

\* the store statements a task-bearing request dispatches to once the task
\* is loaded and the requester's right is settled
Dispatched(r) ==
    \/ r.pc \in {"updateTask", "deleteTask", "removeTaskShare", "getUserByEmail"}
    \/ r.pc = "getTaskShares" /\ r.kind = "getShares"

\* C22: every task-bearing request runs authenticate, resolve-or-create
\* user, load task by id, and only then dispatches to the store: a request
\* reaches its store statement from the load of the task only, its user
\* resolved; and an update or delete reaches the Task Store only when the
\* gateway has found the requester to own the task.
C22_LoadBeforeDispatch ==
    [][\A p \in Procs :
          (Stepped(p) /\ Dispatched(req'[p]) /\ ~Dispatched(req[p]))
          => /\ req[p].pc = "getTaskById_shares"
             /\ req[p].user # 0
             /\ req[p].kind \in {"updateTask", "deleteTask"}
                   => Owns(req[p].user, req[p].taskId)]_vars

\* the answer to p's last request stands: removeTaskShare(T, R) returned
\* true (204), and no request of that client was served since
Removed(p, taskId, userId) ==
    /\ Done(req[p]) /\ req[p].kind = "removeShare" /\ req[p].status = 204
    /\ req[p].taskId = taskId /\ req[p].userId = userId

\* C23: removeTaskShare(T, R) removes the share rows from T to R and no
\* other row, and is answered 204; when there is no such row it is answered
\* 404 and the tables are unchanged.  After a removal answered 204 and
\* until the owner's next request, R's GET /tasks/:id of T is answered 403
\* and R's GET /tasks does not list T.
C23_RemoveRevokes ==
    [][\A p \in Procs :
          /\ (req[p].pc = "removeTaskShare" /\ Stepped(p)) =>
                LET edge == {s \in taskShares : /\ s.taskId = req[p].taskId
                                                /\ s.sharedWithId = req[p].userId}
                IN  /\ taskShares' = taskShares \ edge
                    /\ UNCHANGED <<users, tasks, serial, clock>>
                    /\ Done(req'[p])
                    /\ req'[p].status = IF edge = {} THEN 404 ELSE 204
          /\ \A q \in Procs \ {p} :
                (/\ Removed(p, req[q].taskId, req[q].user)
                 /\ req[q].kind = "getTask" /\ Stepped(q) /\ Done(req'[q]))
                => req'[q].status = 403
          /\ \A q \in Procs \ {p} :
                (/\ Removed(p, req[p].taskId, req[q].user)
                 /\ req[q].kind = "getTasks" /\ Stepped(q) /\ Done(req'[q]))
                => \A i \in DOMAIN req'[q].result :
                       req'[q].result[i].id # req[p].taskId]_vars

\* C24: share-create provisions a placeholder user exactly when no user row
\* carries the target e-mail address.  At its lookup: if a row carries the
\* address the request goes on with one of those rows as recipient and
\* inserts no user; otherwise its next statement inserts exactly one user,
\* with that address and a synthetic subject identifier that no credential
\* maps to, and goes on with it as recipient.  The share row inserted points
\* to that recipient.  No other step of a share-create, its requester
\* resolved, inserts a user.
C24_PlaceholderExactlyWhenAbsent ==
    [][\A p \in Procs :
          (req[p].kind = "shareTask" /\ req[p].user # 0 /\ Stepped(p)) =>
              LET r == req[p]
                  known == {u \in users : u.email = r.body.email}
              IN  /\ r.pc = "getUserByEmail" =>
                        /\ users' = users
                        /\ IF known # {}
                           THEN /\ req'[p].pc = "getTaskShares"
                                /\ req'[p].sharedWith \in {u.id : u \in known}
                           ELSE req'[p].pc = "createPlaceholderUser"
                  /\ r.pc = "createPlaceholderUser" =>
                        /\ known = {}
                        /\ \E row \in users' :
                              /\ users' \ users = {row}
                              /\ row.email = r.body.email
                              /\ row.firebaseUid.kind = "placeholder"
                              /\ \A i \in Idents : row.firebaseUid # FirebaseUid(i)
                              /\ req'[p].sharedWith = row.id
                        /\ req'[p].pc = "getTaskShares"
                  /\ r.pc \notin {"createPlaceholderUser"} => users' = users
                  /\ r.pc = "shareTask" =>
                        \A s \in taskShares' \ taskShares :
                            /\ s.sharedWithId = r.sharedWith
                            /\ \E u \in users : u.id = s.sharedWithId
                                                 /\ u.email = r.body.email]_vars

\* a share-create for an address no user carried was answered 201 with a
\* share row that points to the placeholder user provisioned for it, and a
\* later share-create for the same address found that user
C24_Witness ==
    \E p \in Procs : \E s \in taskShares : \E u \in users :
        /\ Done(req[p]) /\ req[p].kind = "shareTask" /\ req[p].status = 400
        /\ s.taskId = req[p].body.taskId /\ s.sharedWithId = u.id
        /\ u.email = req[p].body.email
        /\ u.firebaseUid.kind = "placeholder"
        /\ \A v \in users : v.email = u.email => v = u

\* C25: the task status has no transition restrictions: an update by the
\* owner that sets a status of the enumeration succeeds (200) and leaves the
\* task with that status, whatever its status was; and the status of every
\* task row is always one of todo, inprogress, completed.
C25_AnyStatusTransition ==
    [][/\ \A p \in Procs :
             (/\ req[p].pc = "updateTask" /\ Stepped(p)
              /\ Owns(req[p].user, req[p].taskId)
              /\ "status" \in DOMAIN req[p].body
              /\ req[p].body.status \in TaskStatus)
             => /\ Done(req'[p]) /\ req'[p].status = 200
                /\ \E t \in tasks' : /\ t.id = req[p].taskId
                                      /\ t.status = req[p].body.status
                                      /\ req'[p].result = <<t>>
                /\ \A t \in tasks' : t.id = req[p].taskId
                                      => t.status = req[p].body.status
       /\ \A t \in tasks' : t.status \in TaskStatus]_vars

\* a task created in status completed was set back by its owner: the update
\* to todo was answered 200 and the row is in status todo
C25_Witness ==
    \E p \in Procs : \E q \in Procs \ {p} : \E t \in tasks :
        /\ Done(req[p]) /\ req[p].kind = "createTask" /\ req[p].status = 201
        /\ req[p].result[1].status = "completed"
        /\ req[p].result[1].id = t.id
        /\ Done(req[q]) /\ req[q].kind = "updateTask" /\ req[q].status = 200
        /\ req[q].taskId = t.id
        /\ req[q].body.status = "todo"
        /\ t.status = "todo"

\* C26: every successful updateTask sets the row's updatedAt to the time of
\* the update, an update with an empty patch included, and leaves createdAt
\* as it was; a rejected update leaves the tasks table unchanged; the clock
\* being monotonic, no step lowers the updatedAt or changes the createdAt of
\* a row, and no row has an updatedAt earlier than its createdAt.
C26_UpdatedAtRefreshed ==
    [][/\ \A p \in Procs :
             (req[p].pc = "updateTask" /\ Stepped(p)) =>
                 IF Owns(req[p].user, req[p].taskId)
                 THEN \A t \in tasks : t.id = req[p].taskId =>
                          \E u \in tasks' :
                              /\ u.id = t.id
                              /\ u.updatedAt = clock
                              /\ u.createdAt = t.createdAt
                              /\ req'[p].status = 200
                 ELSE tasks' = tasks
       /\ \A t \in tasks : \A u \in tasks' :
             u.id = t.id => /\ u.updatedAt >= t.updatedAt
                            /\ u.createdAt = t.createdAt
       /\ \A u \in tasks' : u.updatedAt >= u.createdAt]_vars

\* C27: GET /tasks?search=s applies the search term to the tasks the
\* requester owns only: every task shared to the requester is in the
\* response whether or not its title or description contains s, while a
\* task the requester owns and that is not shared to the requester is in
\* the response only if its title or description contains s.
C27_SearchOwnedOnly ==
    \A p \in Procs :
        (Done(req[p]) /\ req[p].kind = "getTasks" /\ req[p].status = 200) =>
            LET r == req[p]
                sharedTo(t) == \E s \in taskShares :
                                   s.taskId = t.id /\ s.sharedWithId = r.user
                matches(t) ==
                    \/ r.search = NoText
                    \/ ContainsIgnoringCase(t.title, r.search)
                    \/ /\ t.description # NoText
                       /\ ContainsIgnoringCase(t.description, r.search)
            IN  \A t \in tasks :
                    /\ sharedTo(t) =>
                          \E i \in DOMAIN r.result : r.result[i].id = t.id
                    /\ (t.ownerId = r.user /\ ~sharedTo(t) /\ ~matches(t)) =>
                          \A i \in DOMAIN r.result : r.result[i].id # t.id

\* a search term that no task contains: the response leaves out the task
\* the requester owns and holds the task shared to the requester
C27_Witness ==
    \E p \in Procs : \E t, u \in tasks :
        /\ Done(req[p]) /\ req[p].kind = "getTasks" /\ req[p].status = 200
        /\ req[p].search = <<"x">>
        /\ t.ownerId = req[p].user
        /\ u.ownerId # req[p].user
        /\ \E s \in taskShares : s.taskId = u.id /\ s.sharedWithId = req[p].user
        /\ Len(req[p].result) = 1
        /\ req[p].result[1].id = u.id

\* C28: in every reachable state at most one user row carries a given
\* e-mail address, whether the rows come from placeholder provisioning by
\* share-create or from provisioning at first login, in any order.
C28_OneUserPerEmail ==
    \A u, v \in users : u.email = v.email => u = v

\* C29: an authenticated request answered 400, 403 or 404 leaves the tasks
\* and task_shares tables as they were and inserts no user row other than
\* the requester's own at first login; a rejected share-create leaves no
\* placeholder user behind.  Stated on the steps of a request: the step
\* that answers 400, 403 or 404 changes neither table and inserts at most
\* the requester's own user row, and the request has provisioned no
\* placeholder before; a step after which the request goes on changes
\* neither table and inserts at most the requester's own user row or the
\* placeholder it goes on with.
C29_RejectedChangesNothing ==
    [][\A p \in Procs :
          LET own == {u \in users' \ users :
                          u.firebaseUid = FirebaseUid(req'[p].ident)}
          IN  /\ (/\ Stepped(p) /\ Done(req'[p]) /\ req'[p].ident # 0
                  /\ req'[p].status \in {400, 403, 404})
                 => /\ tasks' = tasks
                    /\ taskShares' = taskShares
                    /\ users' \ users \subseteq own
                    /\ users \subseteq users'
                    /\ InFlight(req[p]) => req[p].provisioned = 0
              /\ (Stepped(p) /\ InFlight(req'[p]))
                 => /\ tasks' = tasks
                    /\ taskShares' = taskShares
                    /\ users \subseteq users'
                    /\ \A u \in users' \ users :
                          u \in own \/ req'[p].provisioned = u.id]_vars

\* C30: a share recipient who is not the owner gets, with a successful GET
\* /tasks/:id, the complete share list of the task (every recipient with
\* user row and permission, not only the own share), although GET
\* /tasks/:id/shares answers 403 to the same user and GET /tasks lists the
\* same task with an empty share list.
C30_RecipientSeesAllShares ==
    [][\A p \in Procs :
          (Stepped(p) /\ Done(req'[p]) /\ req'[p].user # 0) =>
              LET r == req'[p]
                  recipientOf(id) ==
                      /\ \E s \in taskShares : s.taskId = id /\ s.sharedWithId = r.user
                      /\ \E t \in tasks : t.id = id /\ t.ownerId # r.user
              IN  /\ (r.kind = "getTask" /\ recipientOf(r.taskId)) =>
                        /\ r.status = 200
                        /\ {[id |-> x.id, taskId |-> x.taskId,
                             sharedWithId |-> x.sharedWithId,
                             permission |-> x.permission] : x \in r.result[1].shares}
                           = {s \in taskShares : s.taskId = r.taskId}
                        /\ \A x \in r.result[1].shares :
                              x.sharedWith \in users /\ x.sharedWith.id = x.sharedWithId
                  /\ (r.kind = "getShares" /\ recipientOf(r.taskId)) =>
                        r.status = 403 /\ r.result = << >>
                  /\ r.kind = "getTasks" =>
                        \A t \in tasks : recipientOf(t.id) =>
                            /\ \E i \in DOMAIN r.result : r.result[i].id = t.id
                            /\ \A i \in DOMAIN r.result :
                                  r.result[i].id = t.id => r.result[i].shares = {}]_vars

\* the task has two share rows; a recipient who is not the owner read it
\* and was given both rows, the one of the other recipient included
C30_Witness ==
    \E p \in Procs : \E t \in tasks :
        /\ Done(req[p]) /\ req[p].kind = "getTask" /\ req[p].status = 200
        /\ t.id = req[p].taskId /\ t.ownerId # req[p].user
        /\ Cardinality(req[p].result[1].shares) = 2
        /\ \E x, y \in req[p].result[1].shares :
              /\ x.sharedWithId = req[p].user
              /\ y.sharedWithId \notin {req[p].user, t.ownerId}
        /\ {s \in taskShares : s.taskId = t.id} =
              {[id |-> x.id, taskId |-> x.taskId, sharedWithId |-> x.sharedWithId,
                permission |-> x.permission] : x \in req[p].result[1].shares}

====
